---- MODULE Spec2Model ----
(***************************************************************************)
(* A model of the FrankEnergie client (python_frank_energie): the client   *)
(* facade of frank_energie.py, one action per facade operation, and the    *)
(* response mappers of models.py as operators.  The transport is an        *)
(* environment that answers every request with a JSON envelope drawn from  *)
(* a bounded set, or fails.                                                *)
(*                                                                         *)
(* Python's None is the empty tuple and a present value x is <<x>>, so     *)
(* that `x is None` is `x = None` for values of any shape.                 *)
(***************************************************************************)
EXTENDS Integers, Sequences, FiniteSets, TLC

VARIABLES
    country,         \* self._country
    auth,            \* self._auth: None or <<[authToken, refreshToken]>>
    siteReference,   \* self._siteReference: None or <<site>>
    session,         \* self._session: "none", "external" or "created"
    close_session,   \* self._close_session
    sessionClosed,   \* whether close() has been awaited on the transport
    scope,           \* "entered" until __aexit__ has run, then "exited"
    exc_info,        \* what __aexit__ was handed: "none" or "exception"
    exchanges,       \* requests the last operation sent, with their responses
    result,          \* how the last operation ended, until the caller
                     \* goes on
    siteAuth,        \* history: the authToken of self._auth when
                     \* _siteReference was assigned: None or <<token>>
    loadedSinceAuth, \* history: _load_site_reference has sent a Me request
                     \* since the last assignment to _auth
    self_price_data, \* price_data of the PriceData a caller works with
    b_price_data,    \* price_data of the right operand of +: None or <<series>>
    now,             \* datetime.now(timezone.utc) as the last call read it:
                     \* None or <<hour>>
    returned         \* how the last call on the PriceData ended, until the
                     \* caller goes on

\* The client's fields and the caller's view of it.
clientVars ==
    <<country, auth, siteReference, session, close_session, sessionClosed,
      scope, exc_info, exchanges, result, siteAuth, loadedSinceAuth>>

\* A PriceData and the caller's view of it.
priceVars == <<self_price_data, b_price_data, now, returned>>

vars == <<clientVars, priceVars>>

----------------------------------------------------------------------------
(* Bounds *)

NumTokens == 2
NumSites == 2
MaxErrors == 2
MaxPrices == 1
MaxSeries == 2
NumHours == 2
NumMarketPrices == 2

----------------------------------------------------------------------------
(* Values *)

None == <<>>

Netherlands == "NL"
Belgium == "BE"
FrankCountry == {Netherlands, Belgium}

Tokens == 1..NumTokens
Sites == 1..NumSites

Authentication(authToken, refreshToken) ==
    [authToken |-> authToken, refreshToken |-> refreshToken]

AuthNotAuthorised == "user-error:auth-not-authorised"
NoMarketPrices == "No marketprices found for segment"
NoMarketPricesFor == "No marketprices found for segment 2024-01-01"
OtherError == "internal error"
Messages == {AuthNotAuthorised, NoMarketPrices, NoMarketPricesFor, OtherError}

\* message.startswith("No marketprices found for segment")
StartsWithNoMarketPrices(message) ==
    message \in {NoMarketPrices, NoMarketPricesFor}

ErrorLists == UNION {[1..n -> Messages] : n \in 0..MaxErrors}

\* One record of a price list, as the backend sends it.
PriceRecord(h) ==
    [from |-> h, till |-> h + 1, marketPrice |-> 10 * h, marketPriceTax |-> 2 * h,
     sourcingMarkupPrice |-> 1, energyTaxPrice |-> 3]
\* The price lists of a day's first hours, in the order of the hours.
PriceLists == {[h \in 1..n |-> PriceRecord(h)] : n \in 0..MaxPrices}

\* Price.__init__
Price(data) ==
    [date_from |-> data.from, date_till |-> data.till,
     market_price |-> data.marketPrice,
     market_price_tax |-> data.marketPriceTax,
     sourcing_markup_price |-> data.sourcingMarkupPrice,
     energy_tax_price |-> data.energyTaxPrice]

\* PriceData.__init__: the class attribute [] stays when price_data is None.
PriceData(price_data) ==
    IF price_data = None
    THEN <<>>
    ELSE [i \in 1..Len(price_data[1]) |-> Price(price_data[1][i])]

\* dict.get(key): None when the key is absent.
Get(dict, key) == IF key \in DOMAIN dict THEN <<dict[key]>> ELSE None

----------------------------------------------------------------------------
(* Outcomes of a call *)

Return(value) == [status |-> "ok", exc |-> "", msg |-> "", value |-> <<value>>]
Raise(exc, msg) == [status |-> "raised", exc |-> exc, msg |-> msg, value |-> None]

Raised(out) == out.status = "raised"

----------------------------------------------------------------------------
(* The transport: what a request may be answered with *)

\* The JSON envelope: an optional error list and an optional "data" member,
\* which is absent, null or an object.
Json(errors, hasData, data) ==
    [kind |-> "json", errors |-> errors, hasData |-> hasData, data |-> data]

\* asyncio.TimeoutError or aiohttp.ClientError out of post() or json()
TransportFailure ==
    [kind |-> "fail", errors |-> <<>>, hasData |-> "absent", data |-> <<>>]

\* Stands where an operation sends no (further) request.
NoResponse ==
    [kind |-> "unsent", errors |-> <<>>, hasData |-> "absent", data |-> <<>>]

EmptyObject == <<>>

LoginData == {[login |-> Authentication(a, r)] : a \in Tokens, r \in Tokens}
RenewTokenData ==
    {[renewToken |-> Authentication(a, r)] : a \in Tokens, r \in Tokens}
MeData ==
    {[me |-> [connectionsStatus |-> "READY",
              deliverySites |-> <<[reference |-> s]>>]] : s \in Sites}
    \cup {[me |-> [connectionsStatus |-> "READY"]]}
MonthSummaryData == {[monthSummary |-> [expectedCosts |-> 1]]}
InvoicesData == {[invoices |-> [TotalAmount |-> 1]]}
MarketPricesDataNL ==
    {[marketPricesElectricity |-> e, marketPricesGas |-> g] :
        e \in PriceLists, g \in PriceLists}
MarketPricesDataBE ==
    {[marketPrices |-> [electricityPrices |-> e, gasPrices |-> g]] :
        e \in PriceLists, g \in PriceLists}
CustomerMarketPricesData ==
    {[customerMarketPrices |-> [electricityPrices |-> e, gasPrices |-> g]] :
        e \in PriceLists, g \in PriceLists}

Operations ==
    {"login", "renew_token", "user", "month_summary", "invoices", "prices",
     "user_prices"}

\* The "data" objects the backend may return for an operation: the payloads
\* of its query in either country, an empty object and an unrelated payload.
DataObjects(op) ==
    CASE op \in {"login", "renew_token"} ->
            LoginData \cup RenewTokenData \cup MonthSummaryData \cup {EmptyObject}
      [] op = "user" -> MeData \cup MonthSummaryData \cup {EmptyObject}
      [] op = "month_summary" ->
            MonthSummaryData \cup InvoicesData \cup {EmptyObject}
      [] op = "invoices" -> InvoicesData \cup MonthSummaryData \cup {EmptyObject}
      [] op = "prices" ->
            MarketPricesDataNL \cup MarketPricesDataBE \cup MonthSummaryData
                \cup {EmptyObject}
      [] op = "user_prices" ->
            CustomerMarketPricesData \cup MonthSummaryData \cup {EmptyObject}

\* With errors the backend sends null data, or data beside the errors.
DataBesideErrors(op) ==
    CASE op \in {"login", "renew_token"} -> [login |-> Authentication(1, 1)]
      [] op = "user" ->
            [me |-> [connectionsStatus |-> "READY",
                     deliverySites |-> <<[reference |-> 1]>>]]
      [] op = "month_summary" -> [monthSummary |-> [expectedCosts |-> 1]]
      [] op = "invoices" -> [invoices |-> [TotalAmount |-> 1]]
      [] op = "prices" ->
            [marketPricesElectricity |-> <<>>, marketPricesGas |-> <<>>]
      [] op = "user_prices" ->
            [customerMarketPrices |->
                [electricityPrices |-> <<>>, gasPrices |-> <<>>]]

ResponsesTo(op) ==
    {TransportFailure}
    \cup {Json(<<>>, "absent", EmptyObject), Json(<<>>, "null", EmptyObject)}
    \cup {Json(<<>>, "object", d) : d \in DataObjects(op)}
    \cup {Json(e, "null", EmptyObject) : e \in ErrorLists \ {<<>>}}
    \cup {Json(e, "object", DataBesideErrors(op)) : e \in ErrorLists \ {<<>>}}

\* The answers the transport may give to a request of each operation.
Responses == [op \in Operations |-> ResponsesTo(op)]

----------------------------------------------------------------------------
(* models.py: the response mappers *)

\* data.get("data", {}): the object, {} when the member is absent; a null
\* member is None, on which the mappers' .get raises AttributeError.
DataMember(data) == IF data.hasData = "object" THEN data.data ELSE EmptyObject

AuthenticationFromDict(data) ==
    IF data.errors # <<>>
    THEN Raise("AuthException", data.errors[1])
    ELSE IF data.hasData = "null"
    THEN Raise("AttributeError", "")
    ELSE LET login_payload == Get(DataMember(data), "login")
             renew_payload == Get(DataMember(data), "renewToken")
             payload == IF login_payload # None THEN login_payload
                        ELSE renew_payload
         IN  IF login_payload = None /\ renew_payload = None
             THEN Raise("AuthException", "Unexpected response")
             ELSE Return(Authentication(payload[1].authToken,
                                        payload[1].refreshToken))

\* The siteReference of a User: the reference of the user's delivery site,
\* None when the payload names none (the Netherlands query asks for none).
UserSiteReference(payload) ==
    IF "deliverySites" \in DOMAIN payload /\ payload.deliverySites # <<>>
    THEN <<payload.deliverySites[1].reference>>
    ELSE None

UserFromDict(data) ==
    IF data.errors # <<>>
    THEN Raise("RequestException", data.errors[1])
    ELSE IF data.hasData = "null"
    THEN Raise("AttributeError", "")
    ELSE LET payload == Get(DataMember(data), "me")
         IN  IF payload = None
             THEN Raise("RequestException", "Unexpected response")
             ELSE Return([type |-> "User",
                          connectionsStatus |-> payload[1].connectionsStatus,
                          siteReference |-> UserSiteReference(payload[1])])

\* Mutant of MonthSummaryFromDict: the last error is reported, not the first.
MonthSummaryFromDict_LastError(data) ==
    IF data.errors # <<>>
    THEN Raise("RequestException", data.errors[Len(data.errors)])
    ELSE IF data.hasData = "null"
    THEN Raise("AttributeError", "")
    ELSE LET payload == Get(DataMember(data), "monthSummary")
         IN  IF payload = None
             THEN Raise("RequestException", "Unexpected response")
             ELSE Return([type |-> "MonthSummary",
                          expectedCosts |-> payload[1].expectedCosts])

MonthSummaryFromDict(data) ==
    IF data.errors # <<>>
    THEN Raise("RequestException", data.errors[1])
    ELSE IF data.hasData = "null"
    THEN Raise("AttributeError", "")
    ELSE LET payload == Get(DataMember(data), "monthSummary")
         IN  IF payload = None
             THEN Raise("RequestException", "Unexpected response")
             ELSE Return([type |-> "MonthSummary",
                          expectedCosts |-> payload[1].expectedCosts])

InvoicesFromDict(data) ==
    IF data.errors # <<>>
    THEN Raise("RequestException", data.errors[1])
    ELSE IF data.hasData = "null"
    THEN Raise("AttributeError", "")
    ELSE LET payload == Get(DataMember(data), "invoices")
         IN  IF payload = None
             THEN Raise("RequestException", "Unexpected response")
             ELSE Return([type |-> "Invoices",
                          TotalAmount |-> payload[1].TotalAmount])

MarketPrices(electricity, gas) ==
    [type |-> "MarketPrices", electricity |-> electricity, gas |-> gas]

\* Mutant of MarketPricesFromDict: the message is compared for equality
\* with the sentinel instead of by prefix.
MarketPricesFromDict_Equality(data) ==
    IF data.errors # <<>>
    THEN IF data.errors[1] = NoMarketPrices
         THEN Return(MarketPrices(PriceData(None), PriceData(None)))
         ELSE Raise("RequestException", data.errors[1])
    ELSE LET payload == DataMember(data)
         IN  IF data.hasData # "object" \/ payload = EmptyObject
             THEN Raise("RequestException", "Unexpected response")
             ELSE Return(MarketPrices(
                      PriceData(Get(payload, "marketPricesElectricity")),
                      PriceData(Get(payload, "marketPricesGas"))))

\* MarketPrices.from_dict: data.get("data") is falsy when the member is
\* absent, null or {}.
MarketPricesFromDict(data) ==
    IF data.errors # <<>>
    THEN IF StartsWithNoMarketPrices(data.errors[1])
         THEN Return(MarketPrices(PriceData(None), PriceData(None)))
         ELSE Raise("RequestException", data.errors[1])
    ELSE LET payload == DataMember(data)
         IN  IF data.hasData # "object" \/ payload = EmptyObject
             THEN Raise("RequestException", "Unexpected response")
             ELSE Return(MarketPrices(
                      PriceData(Get(payload, "marketPricesElectricity")),
                      PriceData(Get(payload, "marketPricesGas"))))

\* MarketPrices.from_userprices_dict: the mapping of a price query, from the
\* customerMarketPrices payload.
MarketPricesFromUserpricesDict(data) ==
    IF data.errors # <<>>
    THEN IF StartsWithNoMarketPrices(data.errors[1])
         THEN Return(MarketPrices(PriceData(None), PriceData(None)))
         ELSE Raise("RequestException", data.errors[1])
    ELSE LET payload == Get(DataMember(data), "customerMarketPrices")
         IN  IF payload = None
             THEN Raise("RequestException", "Unexpected response")
             ELSE Return(MarketPrices(
                      PriceData(<<payload[1].electricityPrices>>),
                      PriceData(<<payload[1].gasPrices>>)))

----------------------------------------------------------------------------
(* models.py: Price and PriceData *)

\* timedelta(days=1), in hours.  A datetime is the count of hours since a
\* midnight UTC; the backend's timestamps are the starts of hours.
HoursPerDay == 24

\* The hours around a midnight: the last hour of one day and the first
\* hours of the next.
Hours == (HoursPerDay - 1)..(HoursPerDay + NumHours - 2)

MarketPriceValues == {10 * p : p \in 1..NumMarketPrices}

\* The records of the hours around midnight, as the backend sends them; two
\* fetches may quote the same hour at different prices.
HourRecords ==
    {[from |-> h, till |-> h + 1, marketPrice |-> p, marketPriceTax |-> 2,
      sourcingMarkupPrice |-> 1, energyTaxPrice |-> 3] :
        h \in Hours, p \in MarketPriceValues}

\* The price_data of the PriceData objects a caller may hold: built from no
\* list, or from a list of records in any order, hours repeated or missing.
Series ==
    {PriceData(None)}
    \cup {PriceData(<<l>>) :
            l \in UNION {[1..n -> HourRecords] : n \in 0..MaxSeries}}

\* Price.for_now, the clock reading t.
for_now(price, t) == price.date_from <= t /\ t < price.date_till

\* Price.for_today, the clock reading t.
for_today(price, t) ==
    LET day_start == t - (t % HoursPerDay)
        day_end == day_start + HoursPerDay
    IN  price.date_from >= day_start /\ price.date_till <= day_end

\* Price.total (the prices are whole numbers, which round() leaves alone)
total(price) ==
    price.market_price + price.market_price_tax
        + price.sourcing_markup_price + price.energy_tax_price

\* Mutant of __add__: the right operand is appended to self.price_data in
\* place (+=) and self is returned.
add_InPlace(self, b) ==
    [out |-> Return(self \o b), self |-> self \o b, b |-> b]

\* PriceData.__add__: the sum, and the operands' price_data after the call.
__add__(self, b) ==
    [out |-> Return(self \o b), self |-> self, b |-> b]

\* PriceData.today
today(price_data, t) ==
    LET ForToday(hour) == for_today(hour, t)
    IN  SelectSeq(price_data, ForToday)

\* PriceData.current_hour: [...][0] raises IndexError on an empty list.
current_hour(price_data, t) ==
    LET ForNow(hour) == for_now(hour, t)
        hours == SelectSeq(price_data, ForNow)
    IN  IF hours = <<>>
        THEN Raise("IndexError", "list index out of range")
        ELSE Return(hours[1])

\* min(hours, key=total) and max(hours, key=total) on a list that is not
\* empty: the first of the entries with the extreme total.
FirstMin(hours) ==
    hours[CHOOSE i \in 1..Len(hours) :
            /\ \A j \in 1..Len(hours) : total(hours[i]) <= total(hours[j])
            /\ \A j \in 1..(i - 1) : total(hours[j]) # total(hours[i])]

FirstMax(hours) ==
    hours[CHOOSE i \in 1..Len(hours) :
            /\ \A j \in 1..Len(hours) : total(hours[i]) >= total(hours[j])
            /\ \A j \in 1..(i - 1) : total(hours[j]) # total(hours[i])]

\* PriceData.today_min: min() raises ValueError on an empty list.
today_min(price_data, t) ==
    IF today(price_data, t) = <<>>
    THEN Raise("ValueError", "min() arg is an empty sequence")
    ELSE Return(FirstMin(today(price_data, t)))

\* PriceData.today_max: max() raises ValueError on an empty list.
today_max(price_data, t) ==
    IF today(price_data, t) = <<>>
    THEN Raise("ValueError", "max() arg is an empty sequence")
    ELSE Return(FirstMax(today(price_data, t)))

\* sum(hour.total for hour in hours)
RECURSIVE SumOfTotals(_)
SumOfTotals(hours) ==
    IF hours = <<>> THEN 0
    ELSE total(hours[1]) + SumOfTotals(Tail(hours))

\* round(x / n, 5) for whole x and n > 0, in units of 0.00001: the nearest
\* whole number of units (no quotient of the model lies halfway).
RoundedQuotient(x, n) == (2 * 100000 * x + n) \div (2 * n)

\* PriceData.today_avg: the division is made whatever len(self.today) is,
\* and raises ZeroDivisionError when it is 0.
today_avg(price_data, t) ==
    IF Len(today(price_data, t)) = 0
    THEN Raise("ZeroDivisionError", "division by zero")
    ELSE Return(RoundedQuotient(SumOfTotals(today(price_data, t)),
                                Len(today(price_data, t))))

----------------------------------------------------------------------------
(* frank_energie.py: the client facade *)

HeaderNames == {"Authorization", "X-Country"}

\* Mutant of Headers: the refresh token is sent as the bearer token.
Headers_RefreshToken(a) ==
    IF a # None
    THEN [h \in HeaderNames |->
            IF h = "Authorization" THEN <<"Bearer", a[1].refreshToken>>
            ELSE <<country>>]
    ELSE [h \in {"X-Country"} |-> <<country>>]

\* The headers _query builds for a request sent while self._auth is a.
Headers(a) ==
    IF a # None
    THEN [h \in HeaderNames |->
            IF h = "Authorization" THEN <<"Bearer", a[1].authToken>>
            ELSE <<country>>]
    ELSE [h \in {"X-Country"} |-> <<country>>]

Request(operationName, variables, a) ==
    [operationName |-> operationName, variables |-> variables,
     headers |-> Headers(a)]

Exchange(request, response) == [request |-> request, response |-> response]

\* Mutant of Query: the transport's failure is not wrapped.
Query_Unwrapped(response) ==
    IF response.kind = "fail"
    THEN Raise("ClientError", "")
    ELSE IF \E i \in 1..Len(response.errors) :
                response.errors[i] = AuthNotAuthorised
    THEN Raise("AuthException", "")
    ELSE Return(response)

\* Mutant of Query: only the first entry of the error list is looked at.
Query_FirstErrorOnly(response) ==
    IF response.kind = "fail"
    THEN Raise("ValueError", "Request failed")
    ELSE IF response.errors # <<>> /\ response.errors[1] = AuthNotAuthorised
    THEN Raise("AuthException", "")
    ELSE Return(response)

\* _query, from the response on: a transport failure is re-raised as
\* ValueError, an auth-not-authorised entry anywhere in the error list raises
\* AuthException, and the response is returned otherwise.
Query(response) ==
    IF response.kind = "fail"
    THEN Raise("ValueError", "Request failed")
    ELSE IF \E i \in 1..Len(response.errors) :
                response.errors[i] = AuthNotAuthorised
    THEN Raise("AuthException", "")
    ELSE Return(response)

\* What a call leaves behind: its outcome, the client's fields and the
\* exchanges it made.
Post(out, a, site, siteauth, loaded, exch) ==
    [out |-> out, auth |-> a, siteReference |-> site, siteAuth |-> siteauth,
     loadedSinceAuth |-> loaded, exchanges |-> exch]

\* Mutant of user: the check for a session is missing.
user_Unguarded(a, r) ==
    LET query == Request("Me",
                         IF country = Belgium
                         THEN [siteReference |-> None] ELSE <<>>, a)
        response == Query(r)
    IN  [out |-> IF Raised(response) THEN response ELSE UserFromDict(r),
         exchanges |-> <<Exchange(query, r)>>]

\* user(), called while self._auth is a, the Me request answered by r.
user(a, r) ==
    IF a = None
    THEN [out |-> Raise("AuthRequiredException", ""), exchanges |-> <<>>]
    ELSE LET query == Request("Me",
                              IF country = Belgium
                              THEN [siteReference |-> None] ELSE <<>>, a)
             response == Query(r)
         IN  [out |-> IF Raised(response) THEN response ELSE UserFromDict(r),
              exchanges |-> <<Exchange(query, r)>>]

\* Whether _load_site_reference, called while self._auth is a, sends Me.
Resolves(a, site) == a # None /\ country = Belgium /\ site = None

\* Mutant of LoadSiteReference: the reference is resolved again although
\* one is held.
LoadSiteReference_Always(a, site, siteauth, loaded, r) ==
    IF a = None
    THEN Post(Raise("AuthRequiredException", ""), a, site, siteauth, loaded, <<>>)
    ELSE IF country = Belgium
    THEN LET me == user(a, r)
         IN  IF Raised(me.out)
             THEN Post(me.out, a, site, siteauth, TRUE, me.exchanges)
             ELSE Post(Return(None), a, me.out.value[1].siteReference,
                       <<a[1].authToken>>,
                       TRUE, me.exchanges)
    ELSE Post(Return(None), a, site, siteauth, loaded, <<>>)

\* _load_site_reference, its Me request (when it sends one) answered by r.
LoadSiteReference(a, site, siteauth, loaded, r) ==
    IF a = None
    THEN Post(Raise("AuthRequiredException", ""), a, site, siteauth, loaded, <<>>)
    ELSE IF country = Belgium /\ site = None
    THEN LET me == user(a, r)
         IN  IF Raised(me.out)
             THEN Post(me.out, a, site, siteauth, TRUE, me.exchanges)
             ELSE Post(Return(None), a, me.out.value[1].siteReference,
                       <<a[1].authToken>>,
                       TRUE, me.exchanges)
    ELSE Post(Return(None), a, site, siteauth, loaded, <<>>)

\* The calls below read the client's fields; r1 answers the first request
\* the call sends and r2 the second (NoResponse where none is sent).

SiteVariables(site) ==
    IF country = Belgium THEN [siteReference |-> site] ELSE <<>>

\* The part login and renew_token share: the mutation is sent, the response
\* parsed, self._auth assigned, and the site reference loaded.
Authenticate(query, r1, r2) ==
    LET response == Query(r1)
        parsed == IF Raised(response) THEN response
                  ELSE AuthenticationFromDict(r1)
        sent == <<Exchange(query, r1)>>
    IN  IF Raised(parsed)
        THEN Post(parsed, auth, siteReference, siteAuth, loadedSinceAuth, sent)
        ELSE LET load == LoadSiteReference(parsed.value, siteReference,
                                           siteAuth, FALSE, r2)
             IN  Post(IF Raised(load.out) THEN load.out
                      ELSE Return(parsed.value[1]),
                      parsed.value, load.siteReference, load.siteAuth,
                      load.loadedSinceAuth, sent \o load.exchanges)

login(r1, r2) ==
    Authenticate(Request("Login", [email |-> "user", password |-> "secret"],
                         auth), r1, r2)

renew_token(r1, r2) ==
    IF auth = None
    THEN Post(Raise("AuthRequiredException", ""), auth, siteReference,
              siteAuth, loadedSinceAuth, <<>>)
    ELSE Authenticate(Request("RenewToken",
                              [authToken |-> auth[1].authToken,
                               refreshToken |-> auth[1].refreshToken], auth),
                      r1, r2)

\* The query name and the response mapper of month_summary, invoices and
\* user_prices.
OperationName(op) ==
    CASE op = "month_summary" -> "MonthSummary"
      [] op = "invoices" -> "Invoices"
      [] op = "user_prices" ->
            IF country = Belgium THEN "MarketPrices" ELSE "CustomerMarketPrices"

FromDict(op, data) ==
    CASE op = "month_summary" -> MonthSummaryFromDict(data)
      [] op = "invoices" -> InvoicesFromDict(data)
      [] op = "user_prices" -> MarketPricesFromUserpricesDict(data)

\* The part month_summary, invoices and user_prices share: the site
\* reference is loaded, then the query is sent and its response mapped.
WithSiteReference(op, r1, r2) ==
    IF auth = None
    THEN Post(Raise("AuthRequiredException", ""), auth, siteReference,
              siteAuth, loadedSinceAuth, <<>>)
    ELSE LET load == LoadSiteReference(auth, siteReference, siteAuth,
                                       loadedSinceAuth, r1)
         IN  IF Raised(load.out)
             THEN load
             ELSE LET query == Request(OperationName(op),
                                       SiteVariables(load.siteReference),
                                       auth)
                      response == Query(r2)
                  IN  Post(IF Raised(response) THEN response
                           ELSE FromDict(op, r2),
                           auth, load.siteReference, load.siteAuth,
                           load.loadedSinceAuth,
                           load.exchanges \o <<Exchange(query, r2)>>)

month_summary(r1, r2) == WithSiteReference("month_summary", r1, r2)

invoices(r1, r2) == WithSiteReference("invoices", r1, r2)

user_prices(r1, r2) == WithSiteReference("user_prices", r1, r2)

prices(r1) ==
    LET query == Request("MarketPrices", <<>>, auth)
        response == Query(r1)
    IN  Post(IF Raised(response) THEN response ELSE MarketPricesFromDict(r1),
             auth, siteReference, siteAuth, loadedSinceAuth,
             <<Exchange(query, r1)>>)

\* Mutant of close: the transport is closed whoever created it.
close_Any == IF session # "none" THEN TRUE ELSE sessionClosed

\* close()
close ==
    IF session # "none" /\ close_session THEN TRUE ELSE sessionClosed

----------------------------------------------------------------------------
(* The state machine *)

\* Between two calls: nothing was sent and no outcome is pending.
Idle == [op |-> "idle"] @@ Return(None)

\* The client after __init__.
InitClient ==
    /\ country \in FrankCountry
    /\ auth \in {None} \cup
           {<<Authentication(a, r)>> : a \in Tokens, r \in Tokens}
    /\ siteReference = None
    /\ session \in {"none", "external"}
    /\ close_session = FALSE
    /\ sessionClosed = FALSE
    /\ scope = "entered"
    /\ exc_info = "none"
    /\ exchanges = <<>>
    /\ result = Idle
    /\ siteAuth = None
    /\ loadedSinceAuth = FALSE

\* A client, and no PriceData in the caller's hands.
Init ==
    /\ InitClient
    /\ self_price_data = <<>>
    /\ b_price_data = None
    /\ now = None
    /\ returned = Idle

\* The caller is inside the client's scope and between two calls.
Ready == scope = "entered" /\ result.op = "idle"

\* A call of operation op that leaves post behind.  Each exchange is one
\* call of _query, which creates the transport when the client has none.
Call(op, post) ==
    /\ auth' = post.auth
    /\ siteReference' = post.siteReference
    /\ siteAuth' = post.siteAuth
    /\ loadedSinceAuth' = post.loadedSinceAuth
    /\ exchanges' = post.exchanges
    /\ result' = [op |-> op] @@ post.out
    /\ session' = IF post.exchanges # <<>> /\ session = "none"
                  THEN "created" ELSE session
    /\ close_session' = IF post.exchanges # <<>> /\ session = "none"
                        THEN TRUE ELSE close_session
    /\ UNCHANGED <<country, sessionClosed, scope, exc_info, priceVars>>

\* The answers to the second request of login and renew_token.
SecondOfAuthenticate(r1) ==
    IF ~Raised(Query(r1)) /\ ~Raised(AuthenticationFromDict(r1))
       /\ Resolves(AuthenticationFromDict(r1).value, siteReference)
    THEN Responses["user"] ELSE {NoResponse}

\* The answers to the two requests of month_summary, invoices, user_prices.
FirstOfWithSiteReference ==
    IF Resolves(auth, siteReference) THEN Responses["user"] ELSE {NoResponse}

SecondOfWithSiteReference(op, r1) ==
    IF auth # None
       /\ ~Raised(LoadSiteReference(auth, siteReference, siteAuth,
                                    loadedSinceAuth, r1).out)
    THEN Responses[op] ELSE {NoResponse}

CallLogin ==
    /\ Ready
    /\ \E r1 \in Responses["login"] : \E r2 \in SecondOfAuthenticate(r1) :
        Call("login", login(r1, r2))

CallRenewToken ==
    /\ Ready
    /\ \E r1 \in IF auth = None THEN {NoResponse} ELSE Responses["renew_token"] :
        \E r2 \in IF auth = None THEN {NoResponse}
                  ELSE SecondOfAuthenticate(r1) :
            Call("renew_token", renew_token(r1, r2))

CallUser ==
    /\ Ready
    /\ \E r1 \in IF auth = None THEN {NoResponse} ELSE Responses["user"] :
        LET me == user(auth, r1)
        IN  Call("user", Post(me.out, auth, siteReference, siteAuth,
                              loadedSinceAuth, me.exchanges))

CallMonthSummary ==
    /\ Ready
    /\ \E r1 \in FirstOfWithSiteReference :
        \E r2 \in SecondOfWithSiteReference("month_summary", r1) :
            Call("month_summary", month_summary(r1, r2))

CallInvoices ==
    /\ Ready
    /\ \E r1 \in FirstOfWithSiteReference :
        \E r2 \in SecondOfWithSiteReference("invoices", r1) :
            Call("invoices", invoices(r1, r2))

CallPrices ==
    /\ Ready
    /\ \E r1 \in Responses["prices"] : Call("prices", prices(r1))

CallUserPrices ==
    /\ Ready
    /\ \E r1 \in FirstOfWithSiteReference :
        \E r2 \in SecondOfWithSiteReference("user_prices", r1) :
            Call("user_prices", user_prices(r1, r2))

\* __aexit__: the scope is left, after a return or with the exception the
\* last call raised, and close() is awaited.
Exit ==
    /\ scope = "entered"
    /\ scope' = "exited"
    /\ exc_info' = IF Raised(result) THEN "exception" ELSE "none"
    /\ sessionClosed' = close
    /\ exchanges' = <<>>
    /\ result' = [op |-> "close"] @@ Return(None)
    /\ UNCHANGED <<country, auth, siteReference, session, close_session,
                   siteAuth, loadedSinceAuth, priceVars>>

\* The caller goes on after a call: it has taken the value returned, or
\* caught the exception raised.
Continue ==
    /\ scope = "entered"
    /\ result.op # "idle"
    /\ exchanges' = <<>>
    /\ result' = Idle
    /\ UNCHANGED <<country, auth, siteReference, session, close_session,
                   sessionClosed, scope, exc_info, siteAuth, loadedSinceAuth,
                   priceVars>>

Next ==
    \/ CallLogin
    \/ CallRenewToken
    \/ CallUser
    \/ CallMonthSummary
    \/ CallInvoices
    \/ CallPrices
    \/ CallUserPrices
    \/ Continue
    \/ Exit

Spec == Init /\ [][Next]_vars

----------------------------------------------------------------------------
(* The state machine of a PriceData in a caller's hands *)

\* A PriceData a prices call has returned, or one built from no list; the
\* client is left alone.
InitPriceData ==
    /\ InitClient
    /\ country = Netherlands
    /\ auth = None
    /\ session = "none"
    /\ self_price_data \in Series
    /\ b_price_data = None
    /\ now = None
    /\ returned = Idle

\* The caller is between two calls on the PriceData.
ReadyPriceData == returned.op = "idle"

\* The caller evaluates the right operand of a sum.
Operand ==
    /\ ReadyPriceData
    /\ b_price_data = None
    /\ \E b \in Series : b_price_data' = <<b>>
    /\ UNCHANGED <<self_price_data, now, returned, clientVars>>

\* self + b
Add ==
    /\ ReadyPriceData
    /\ b_price_data # None
    /\ LET post == __add__(self_price_data, b_price_data[1])
       IN  /\ self_price_data' = post.self
           /\ b_price_data' = <<post.b>>
           /\ returned' = [op |-> "__add__"] @@ post.out
    /\ UNCHANGED <<now, clientVars>>

\* A property that reads the clock is read: the clock says t and the
\* property ends as out.
ReadAt(op, t, out) ==
    /\ now' = <<t>>
    /\ returned' = [op |-> op] @@ out
    /\ UNCHANGED <<self_price_data, b_price_data, clientVars>>

CurrentHour ==
    /\ ReadyPriceData
    /\ b_price_data = None
    /\ \E t \in Hours :
        ReadAt("current_hour", t, current_hour(self_price_data, t))

TodayMin ==
    /\ ReadyPriceData
    /\ b_price_data = None
    /\ \E t \in Hours : ReadAt("today_min", t, today_min(self_price_data, t))

TodayMax ==
    /\ ReadyPriceData
    /\ b_price_data = None
    /\ \E t \in Hours : ReadAt("today_max", t, today_max(self_price_data, t))

TodayAvg ==
    /\ ReadyPriceData
    /\ b_price_data = None
    /\ \E t \in Hours : ReadAt("today_avg", t, today_avg(self_price_data, t))

\* The caller goes on with the PriceData it had.
ContinueWithSelf ==
    /\ returned.op # "idle"
    /\ b_price_data' = None
    /\ now' = None
    /\ returned' = Idle
    /\ UNCHANGED <<self_price_data, clientVars>>

\* The caller goes on with the sum, as in (a + b).all.
ContinueWithSum ==
    /\ returned.op = "__add__"
    /\ returned.status = "ok"
    /\ Len(returned.value[1]) <= MaxSeries
    /\ self_price_data' = returned.value[1]
    /\ b_price_data' = None
    /\ now' = None
    /\ returned' = Idle
    /\ UNCHANGED clientVars

NextPriceData ==
    \/ Operand
    \/ Add
    \/ CurrentHour
    \/ TodayMin
    \/ TodayMax
    \/ TodayAvg
    \/ ContinueWithSelf
    \/ ContinueWithSum

SpecPriceData == InitPriceData /\ [][NextPriceData]_vars

----------------------------------------------------------------------------
(* What the properties below speak of *)

AuthenticatedOperations ==
    {"renew_token", "user", "month_summary", "invoices", "user_prices"}

\* The operations whose response mapper is read from models.py.
MappedOperations == {"user", "month_summary", "invoices", "prices"}

LastExchange == exchanges[Len(exchanges)]

HasErrors(response) == response.kind = "json" /\ response.errors # <<>>

HasAuthError(response) ==
    /\ response.kind = "json"
    /\ \E i \in 1..Len(response.errors) : response.errors[i] = AuthNotAuthorised

RaisedWith(exc) ==
    result.status = "raised" /\ result.exc = exc /\ result.value = None

\* C1: while the client holds no session, renew_token, user, month_summary,
\* invoices and user_prices each raise AuthRequiredException and send no
\* request, whatever was called before.
C1_AuthRequired ==
    [][(auth = None /\ result'.op \in AuthenticatedOperations)
        => /\ result'.status = "raised"
           /\ result'.exc = "AuthRequiredException"
           /\ exchanges' = <<>>
           /\ session' = session
           /\ auth' = None]_vars

\* An authenticated operation was refused after an earlier call (a failed
\* login, or prices) had already used the transport.
C1_Witness ==
    /\ result.op \in AuthenticatedOperations
    /\ auth = None
    /\ session = "created"
    /\ RaisedWith("AuthRequiredException")
    /\ exchanges = <<>>

\* C2: in every operation, a response whose error list holds the
\* auth-not-authorised message at any position makes the operation raise
\* AuthException and return no typed result.
C2_AuthException ==
    \A i \in 1..Len(exchanges) :
        HasAuthError(exchanges[i].response) => RaisedWith("AuthException")

\* The sentinel stood second in the list, behind another error.
C2_Witness ==
    /\ exchanges # <<>>
    /\ Len(LastExchange.response.errors) = 2
    /\ LastExchange.response.errors[1] = OtherError
    /\ LastExchange.response.errors[2] = AuthNotAuthorised
    /\ RaisedWith("AuthException")

\* A request of a price query (prices, user_prices), not the Me request
\* that resolves the site reference.
IsPriceQuery(exchange) ==
    exchange.request.operationName \in {"MarketPrices", "CustomerMarketPrices"}

\* An error entry that is neither sentinel of the query it answers.
IsOtherError(exchange, message) ==
    /\ message # AuthNotAuthorised
    /\ ~(IsPriceQuery(exchange) /\ StartsWithNoMarketPrices(message))

EmptyMarketPrices == MarketPrices(<<>>, <<>>)

\* C3 as stated, read in its favour (the auth-not-authorised sentinel first,
\* and any one of the other entries reported), for the operations mapped in
\* models.py: an error list without the auth sentinel that holds, at any
\* position, an entry that is not a sentinel of the query makes the
\* operation raise RequestException carrying such an entry's message.
C3_Original ==
    (result.op \in MappedOperations /\ exchanges # <<>>
        /\ HasErrors(LastExchange.response)
        /\ ~HasAuthError(LastExchange.response))
    => \A j \in 1..Len(LastExchange.response.errors) :
          IsOtherError(LastExchange, LastExchange.response.errors[j])
          => /\ RaisedWith("RequestException")
             /\ \E k \in 1..Len(LastExchange.response.errors) :
                   /\ IsOtherError(LastExchange, LastExchange.response.errors[k])
                   /\ result.msg = LastExchange.response.errors[k]

\* C3, amended: for user, month_summary, invoices and prices, an error list
\* without the auth sentinel whose FIRST entry is not a sentinel of the query
\* makes the operation raise RequestException carrying the first entry's
\* message, whatever follows it in the list.
C3_FirstError ==
    (result.op \in MappedOperations /\ exchanges # <<>>
        /\ HasErrors(LastExchange.response)
        /\ ~HasAuthError(LastExchange.response)
        /\ IsOtherError(LastExchange, LastExchange.response.errors[1]))
    => /\ RaisedWith("RequestException")
       /\ result.msg = LastExchange.response.errors[1]

\* Two different errors came back and the first one was reported.
C3_Witness ==
    /\ result.op = "month_summary"
    /\ exchanges # <<>>
    /\ LastExchange.request.operationName = "MonthSummary"
    /\ LastExchange.response.errors = <<OtherError, NoMarketPrices>>
    /\ RaisedWith("RequestException")
    /\ result.msg = OtherError

\* C4: a price query answered with the "No marketprices found for segment"
\* message returns a MarketPrices whose electricity and gas series are both
\* empty and raises nothing; user, month_summary and invoices answered with
\* the same message raise RequestException carrying it.
C4_NoMarketPrices ==
    (exchanges # <<>> /\ HasErrors(LastExchange.response)
        /\ ~HasAuthError(LastExchange.response)
        /\ StartsWithNoMarketPrices(LastExchange.response.errors[1]))
    => /\ (result.op \in {"prices", "user_prices"} /\ IsPriceQuery(LastExchange))
          => /\ result.status = "ok"
             /\ result.value = <<EmptyMarketPrices>>
       /\ result.op \in {"user", "month_summary", "invoices"}
          => /\ RaisedWith("RequestException")
             /\ result.msg = LastExchange.response.errors[1]

\* prices was answered with the message, followed by the segment's date.
C4_Witness ==
    /\ result.op = "prices"
    /\ exchanges # <<>>
    /\ LastExchange.response.errors = <<NoMarketPricesFor>>
    /\ result.status = "ok"
    /\ Len(result.value[1].electricity) = 0
    /\ Len(result.value[1].gas) = 0

\* The payload keys the prices query of the client's country asks for.
ExpectedPricesKeys ==
    IF country = Belgium THEN {"marketPrices"}
    ELSE {"marketPricesElectricity", "marketPricesGas"}

\* C5, for prices: a response without errors in which a payload key the
\* query of the client's country asks for is absent makes prices raise
\* RequestException("Unexpected response").
C5_UnexpectedResponse ==
    (result.op = "prices" /\ exchanges # <<>>
        /\ LastExchange.response.kind = "json"
        /\ LastExchange.response.errors = <<>>
        /\ ~(ExpectedPricesKeys \subseteq DOMAIN DataMember(LastExchange.response)))
    => /\ RaisedWith("RequestException")
       /\ result.msg = "Unexpected response"

\* A request of month_summary, invoices or user_prices that carries a site
\* reference to the Belgian backend.
CarriesSiteReference(exchange) ==
    /\ country = Belgium
    /\ exchange.request.operationName # "Me"
    /\ exchange.request.variables.siteReference # None

\* C6: the site reference a Belgian month_summary, invoices or user_prices
\* request carries was resolved under the credentials the client holds, never
\* under credentials that login or renew_token has since replaced.
C6_Invalidated ==
    (result.op \in {"month_summary", "invoices", "user_prices"}
        /\ exchanges # <<>> /\ CarriesSiteReference(LastExchange))
    => siteAuth = <<auth[1].authToken>>

\* The Me requests among the exchanges a call other than user made: those of
\* _load_site_reference.
LoadRequests(exch) ==
    {i \in 1..Len(exch) : exch[i].request.operationName = "Me"}

\* C7 as stated: between two replacements of the credentials
\* _load_site_reference sends its Me request at most once (a call that has
\* sent it is followed by none that sends it again, until login or
\* renew_token replaces the credentials), and never for the Netherlands.
C7_Original ==
    [][result'.op \in (Operations \ {"user"})
        => /\ Cardinality(LoadRequests(exchanges')) <= 1
           /\ (loadedSinceAuth /\ result'.op \notin {"login", "renew_token"})
                => LoadRequests(exchanges') = {}
           /\ country = Netherlands => LoadRequests(exchanges') = {}]_vars

\* C7, amended: _load_site_reference sends its Me request only for Belgium
\* and only while no site reference is held, at most once in a call; once a
\* reference is held no call sends it again.
C7_ResolvedOnce ==
    [][result'.op \in (Operations \ {"user"})
        => /\ (country = Netherlands \/ siteReference # None)
                => LoadRequests(exchanges') = {}
           /\ Cardinality(LoadRequests(exchanges')) <= 1
           /\ (siteReference # None) => siteReference' = siteReference]_vars

\* A Belgian month_summary went out with the reference an earlier call had
\* resolved, and resolved nothing itself.
C7_Witness ==
    /\ country = Belgium
    /\ result.op = "month_summary"
    /\ Len(exchanges) = 1
    /\ exchanges[1].request.operationName = "MonthSummary"
    /\ exchanges[1].request.variables.siteReference = siteReference
    /\ siteReference # None
    /\ loadedSinceAuth

\* C8: once the scope is left, after a return or with an exception, the
\* transport is closed exactly if the client created it; a transport handed
\* to the constructor is never closed.
C8_Close ==
    /\ scope = "exited" => (sessionClosed <=> session = "created")
    /\ session = "external" => ~sessionClosed
    /\ scope = "entered" => ~sessionClosed

\* The scope was left with an exception and the client's own transport closed.
C8_Witness ==
    /\ scope = "exited"
    /\ exc_info = "exception"
    /\ session = "created"
    /\ sessionClosed

\* The headers of a request sent while the session is a.
CarriesHeaders(request, a) ==
    /\ request.headers["X-Country"] = <<country>>
    /\ ("Authorization" \in DOMAIN request.headers) <=> (a # None)
    /\ (a # None) => request.headers["Authorization"] = <<"Bearer", a[1].authToken>>

\* C9: every request carries X-Country with the client's country, and an
\* Authorization header exactly if a session is held when it is sent, with
\* that session's authToken: the first request of a call is sent under the
\* session held before the call and a second one (the Me request that
\* follows a login or renewal) under the session held after it.
C9_Headers ==
    [][\A i \in 1..Len(exchanges') :
          CarriesHeaders(exchanges'[i].request, IF i = 1 THEN auth ELSE auth')]_vars

\* After a renewal that changed the token, the Me request went out with the
\* renewed token.
C9_Witness ==
    /\ result.op = "renew_token"
    /\ Len(exchanges) = 2
    /\ exchanges[1].request.headers["Authorization"]
         # exchanges[2].request.headers["Authorization"]
    /\ exchanges[2].request.headers["Authorization"]
         = <<"Bearer", auth[1].authToken>>

\* C10 as stated: a call during which the transport fails raises
\* RequestException.
C10_Original ==
    \A i \in 1..Len(exchanges) :
        exchanges[i].response.kind = "fail" => RaisedWith("RequestException")

\* C10, amended: a call during which the transport fails raises ValueError
\* ("Request failed: ..."), in every operation that sends a request.
C10_ValueError ==
    \A i \in 1..Len(exchanges) :
        exchanges[i].response.kind = "fail"
        => /\ RaisedWith("ValueError")
           /\ result.msg = "Request failed"
           /\ i = Len(exchanges)

\* The transport failed on the second request of a call.
C10_Witness ==
    /\ result.op = "invoices"
    /\ Len(exchanges) = 2
    /\ exchanges[2].response.kind = "fail"
    /\ RaisedWith("ValueError")

----------------------------------------------------------------------------
(* What the properties of a PriceData speak of *)

ReturnedBy(op) == returned.op = op /\ returned.status = "ok"

RaisedBy(op, exc) ==
    returned.op = op /\ returned.status = "raised" /\ returned.exc = exc

\* C11: for all series self and b, the empty ones included, self + b returns
\* a series that holds the entries of self followed by the entries of b, each
\* in its place and none dropped, merged or moved (its length is the sum of
\* the two lengths), and leaves the price_data of self and of b as they were.
C11_Combine ==
    [][returned'.op = "__add__"
        => /\ returned'.status = "ok"
           /\ self_price_data' = self_price_data
           /\ b_price_data' = b_price_data
           /\ LET sum == returned'.value[1]
                  a == self_price_data
                  b == b_price_data[1]
              IN  /\ Len(sum) = Len(a) + Len(b)
                  /\ \A i \in 1..Len(a) : sum[i] = a[i]
                  /\ \A i \in 1..Len(b) : sum[Len(a) + i] = b[i]]_vars

\* Two series of full length were summed that share an entry, the later
\* hours standing in the left one: the sum keeps the entry twice and is not
\* in the order of the hours.
C11_Witness ==
    /\ ReturnedBy("__add__")
    /\ Len(self_price_data) = MaxSeries
    /\ Len(b_price_data[1]) = MaxSeries
    /\ Len(returned.value[1]) = 2 * MaxSeries
    /\ self_price_data[1] = b_price_data[1][1]
    /\ self_price_data[MaxSeries].date_from > b_price_data[1][MaxSeries].date_from

\* The properties that take today's minimum, maximum and average.
DayProperties == {"today_min", "today_max", "today_avg"}

\* C12: today_avg, today_min and today_max, read while no entry of the
\* series is for the current day (an empty series included), each raise an
\* EmptyRange error and return no value; today_avg in particular raises it
\* and not the ZeroDivisionError of a division by len(today) = 0.
C12_EmptyRange ==
    (returned.op \in DayProperties /\ today(self_price_data, now[1]) = <<>>)
    => /\ returned.status = "raised"
       /\ returned.value = None
       /\ returned.exc = "EmptyRange"

\* C13: current_hour returns the first entry, in the order of the series,
\* with date_from <= now < date_till, whatever other entries match as well,
\* and raises a NotFound error when no entry matches.
C13_CurrentHour ==
    returned.op = "current_hour"
    => LET matching == {i \in 1..Len(self_price_data) :
                           for_now(self_price_data[i], now[1])}
       IN  IF matching = {}
           THEN /\ returned.status = "raised"
                /\ returned.exc = "NotFound"
           ELSE /\ returned.status = "ok"
                /\ \E i \in matching :
                     /\ \A j \in matching : i <= j
                     /\ returned.value = <<self_price_data[i]>>

\* The part of C13 that TLC finds to hold: the first matching entry is
\* returned, and the read fails (with IndexError) when none matches.
C13_FirstMatch ==
    returned.op = "current_hour"
    => LET matching == {i \in 1..Len(self_price_data) :
                           for_now(self_price_data[i], now[1])}
       IN  IF matching = {}
           THEN RaisedBy("current_hour", "IndexError")
           ELSE /\ returned.status = "ok"
                /\ \E i \in matching :
                     /\ \A j \in matching : i <= j
                     /\ returned.value = <<self_price_data[i]>>

\* C14: a login or renew_token that raises, whatever the reason (rejected
\* credentials, an unexpected response, a transport failure, or a failure of
\* the Me request that resolves the site reference afterwards), leaves
\* self._auth and self._siteReference as they were before the call; only a
\* login or renew_token that returns replaces self._auth.
C14_Frame ==
    [][/\ (result'.op \in {"login", "renew_token"} /\ Raised(result'))
            => (auth' = auth /\ siteReference' = siteReference)
       /\ auth' # auth
            => (result'.op \in {"login", "renew_token"} /\ ~Raised(result'))]_vars

====
